---- MODULE Spec2Model ----
(***************************************************************************)
(* EcDSA/DSA nonce-reuse private key recovery (ecdsa_key_recovery).         *)
(*                                                                         *)
(* The model follows src/ecdsa_key_recovery/__init__.py: the module-level  *)
(* function inverse, and the classes RecoverableSignature, DsaSignature    *)
(* and EcDsaSignature.  Python integers are unbounded, so no arithmetic is *)
(* reduced except where the code itself reduces it.                        *)
(***************************************************************************)
EXTENDS Integers, Sequences, FiniteSets, TLC

VARIABLES
    inst,     \* the signature objects constructed so far, by slot
    last,     \* the last call made on them, and how it ended
    inv       \* a call of the module-level function inverse(a, n)

vars == <<inst, last, inv>>

(***************************************************************************)
(* Bounds of the model.                                                    *)
(***************************************************************************)
\* digests are drawn from 0..MaxH
MaxH == 2
\* the keys bound are those of the secret exponents 1..MaxSecret
MaxSecret == 2
\* inverse(a, n) is called with a in -MaxA..MaxA
MaxA == 12
\* inverse(a, n) is called with n in 2..MaxN
MaxN == 9

(***************************************************************************)
(* Python integer arithmetic.                                              *)
(***************************************************************************)
\* b // a: floor division, for a divisor of either sign
PyFloorDiv(b, a) ==
    IF a > 0 THEN b \div a ELSE (0 - b) \div (0 - a)

\* b % a: the remainder has the sign of the divisor
PyMod(b, a) == b - a * PyFloorDiv(b, a)

\* self.k = None, self.x = None
None == -1

Min(a, b) == IF a < b THEN a ELSE b

(***************************************************************************)
(* inverse(a, n), lines 21-46.                                             *)
(***************************************************************************)
RECURSIVE extended_gcd(_, _)
extended_gcd(a, b) ==
    IF a = 0
    THEN <<b, 0, 1>>
    ELSE LET r == extended_gcd(PyMod(b, a), a)
             gcd == r[1]
             x1 == r[2]
             y1 == r[3]
         IN  <<gcd, y1 - PyFloorDiv(b, a) * x1, x1>>

\* a mutant of inverse: the coefficient is returned without the reduction
\* of line 46
inverse_noreduce(a, n) ==
    LET r == extended_gcd(a, n)
    IN  IF r[1] # 1
        THEN [raised |-> TRUE, val |-> 0]
        ELSE [raised |-> FALSE, val |-> r[2]]

\* the result of inverse(a, n): raised is TRUE for the ValueError of line 45
inverse(a, n) ==
    LET r == extended_gcd(a, n)
    IN  IF r[1] # 1
        THEN [raised |-> TRUE, val |-> 0]
        ELSE [raised |-> FALSE, val |-> PyMod(r[2], n)]

\* the mathematical greatest common divisor of two naturals
RECURSIVE Gcd(_, _)
Gcd(a, b) == IF b = 0 THEN a ELSE Gcd(b, a % b)

Abs(a) == IF a < 0 THEN 0 - a ELSE a

(***************************************************************************)
(* The DSA public keys the callers bind (Crypto.PublicKey.DSA key objects: *)
(* fields y, g, p, q and the predicate verify).                            *)
(***************************************************************************)
RECURSIVE ModExp(_, _, _)
ModExp(b, e, m) == IF e = 0 THEN 1 % m ELSE (b * ModExp(b, e - 1, m)) % m

\* the inverse of a modulo m, for a coprime to m
ModInv(a, m) == CHOOSE x \in 0..(m - 1) : (a * x) % m = 1

\* The parameters (p, q, g) of the key objects: q divides p - 1 and g has
\* order q modulo p.  A key object is built from whatever numbers its maker
\* supplies and neither it nor DsaSignature checks that q is prime: the
\* second group has the composite order 9.
DsaGroups == { [p |-> 7, q |-> 3, g |-> 2], [p |-> 19, q |-> 9, g |-> 4] }

DsaPubkeys ==
    UNION { { [p |-> grp.p, q |-> grp.q, g |-> grp.g, y |-> ModExp(grp.g, x, grp.p)] :
                x \in 1..Min(MaxSecret, grp.q - 1) } : grp \in DsaGroups }

\* pubkey.verify(h, (r, s)) of a DSA key object
DsaVerify(pub, h, sig) ==
    IF ~(0 < sig.r /\ sig.r < pub.q) \/ ~(0 < sig.s /\ sig.s < pub.q)
    THEN FALSE
    ELSE LET w == ModInv(sig.s, pub.q)
             u1 == (h * w) % pub.q
             u2 == (sig.r * w) % pub.q
             v == ((ModExp(pub.g, u1, pub.p) * ModExp(pub.y, u2, pub.p)) % pub.p) % pub.q
         IN  v = sig.r

\* the arguments a caller may hand to DsaSignature(sig, h, pubkey): r and s
\* from 0 to q, both ends out of range; an s in range that has no inverse
\* modulo q is left out, verify being unspecified for it
DsaInputs ==
    UNION { { [sig |-> [r |-> r, s |-> s], h |-> h, pubkey |-> pub] :
                r \in 0..pub.q,
                s \in { ss \in 0..pub.q : ss % pub.q = 0 \/ Gcd(ss, pub.q) = 1 },
                h \in 0..MaxH } : pub \in DsaPubkeys }

(***************************************************************************)
(* The elliptic curves and the ecdsa package: points, Public_key.verifies, *)
(* numbertheory.inverse_mod and SigningKey.from_secret_exponent.           *)
(***************************************************************************)
\* y^2 = x^3 + a x + b over GF(p), with base point G of prime order n
Curves == { [p |-> 7, a |-> 0, b |-> 5, n |-> 7, G |-> <<3, 2>>] }

INFINITY == << >>

PointAdd(c, P, Q) ==
    IF P = INFINITY THEN Q
    ELSE IF Q = INFINITY THEN P
    ELSE IF P[1] = Q[1] /\ (P[2] + Q[2]) % c.p = 0 THEN INFINITY
    ELSE LET l == IF P = Q
                  THEN ((3 * P[1] * P[1] + c.a) * ModInv((2 * P[2]) % c.p, c.p)) % c.p
                  ELSE ((Q[2] - P[2]) * ModInv((Q[1] - P[1]) % c.p, c.p)) % c.p
             x3 == (l * l - P[1] - Q[1]) % c.p
         IN  <<x3, (l * (P[1] - x3) - P[2]) % c.p>>

RECURSIVE PointMul(_, _, _)
PointMul(c, k, P) ==
    IF k = 0 THEN INFINITY ELSE PointAdd(c, PointMul(c, k - 1, P), P)

\* the points of the group generated by G, and k * P for each of them
\* (the scalar multiplication, tabulated)
Points(c) == { PointMul(c, k, c.G) : k \in 0..(c.n - 1) }

Mul == [c \in Curves |->
          [kP \in (0..(c.n - 1)) \X Points(c) |-> PointMul(c, kP[1], kP[2])]]

\* ecdsa.numbertheory.inverse_mod(a, m): no inverse of a multiple of m
inverse_mod(a, m) ==
    IF a % m = 0
    THEN [raised |-> TRUE, val |-> 0]
    ELSE [raised |-> FALSE, val |-> ModInv(a % m, m)]

\* Public_key.verifies(h, sig) of the key with point Q on curve c:
\* "True", "False", or "TypeError" when u1*G + u2*Q is the point at infinity,
\* whose x() is None
verifies(c, Q, h, sig) ==
    IF sig.r < 1 \/ sig.r > c.n - 1 THEN "False"
    ELSE IF sig.s < 1 \/ sig.s > c.n - 1 THEN "False"
    ELSE LET w == inverse_mod(sig.s, c.n).val
             u1 == (h * w) % c.n
             u2 == (sig.r * w) % c.n
             xy == PointAdd(c, Mul[c][<<u1, c.G>>], Mul[c][<<u2, Q>>])
         IN  IF xy = INFINITY THEN "TypeError"
             ELSE IF xy[1] % c.n = sig.r THEN "True" ELSE "False"

\* the arguments a caller may hand to EcDsaSignature(sig, h, pubkey, curve)
EcInputs ==
    UNION { { [sig |-> [r |-> r, s |-> s], h |-> h,
               pubkey |-> [curve |-> c, point |-> Mul[c][<<d, c.G>>]]] :
                r \in 0..c.n, s \in 0..c.n, h \in 0..MaxH,
                d \in 1..Min(MaxSecret, c.n - 1) } : c \in Curves }

(***************************************************************************)
(* The signature objects.  A call is recorded in last: the method, the     *)
(* slots of self and other (0: none), how it ended ("ok" or the exception  *)
(* raised), what it returned, how many modular inverses it computed, and   *)
(* whether it repeats a recover_nonce_reuse call that has just succeeded.  *)
(***************************************************************************)
Call(op, self, other, outcome, ret, inverses) ==
    [op |-> op, self |-> self, other |-> other, outcome |-> outcome,
     ret |-> ret, inverses |-> inverses, again |-> FALSE]

NoCall == Call("none", 0, 0, "ok", "none", 0)

\* no call of inverse is being made
InvIdle == [a |-> 0, n |-> 2, called |-> FALSE, raised |-> FALSE, val |-> 0]

\* RecoverableSignature.__init__ (lines 101-111) under DsaSignature.__init__
\* (lines 160-165): k and x start as None; nverify counts the calls of the
\* bound public key's verify on this object's signature
NewDsa(in) ==
    [variant |-> "DSA", sig |-> in.sig, h |-> in.h, pubkey |-> in.pubkey,
     k |-> None, x |-> None, nverify |-> 1]

\* a mutant of DsaGate: the assertion is dropped
DsaGate_off(in) == TRUE

\* the assertion of line 164
DsaGate(in) == DsaVerify(in.pubkey, in.h, in.sig)

\* EcDsaSignature.__init__ (lines 203-211)
NewEc(in) ==
    [variant |-> "ECDSA", curve |-> in.pubkey.curve, sig |-> in.sig, h |-> in.h,
     pubkey |-> in.pubkey, k |-> None, x |-> None, signingkey |-> None,
     n |-> in.pubkey.curve.n, nverify |-> 1]

\* the assertion of line 210
EcGate(in) == verifies(in.pubkey.curve, in.pubkey.point, in.h, in.sig)

\* DsaSignature(sig, h, pubkey)
ConstructDsa ==
    /\ Len(inst) < 2
    /\ \A i \in DOMAIN inst : inst[i].variant = "DSA"
    /\ \E in \in DsaInputs :
        /\ IF DsaGate(in)
           THEN /\ inst' = Append(inst, NewDsa(in))
                /\ last' = Call("construct", Len(inst) + 1, 0, "ok", "instance", 0)
           ELSE /\ inst' = inst
                /\ last' = Call("construct", 0, 0, "AssertionError", "none", 0)
        /\ UNCHANGED inv

\* EcDsaSignature(sig, h, pubkey, curve)
ConstructEc ==
    /\ Len(inst) < 2
    /\ \A i \in DOMAIN inst : inst[i].variant = "ECDSA"
    /\ \E in \in EcInputs :
        /\ LET v == EcGate(in)
           IN  IF v = "True"
               THEN /\ inst' = Append(inst, NewEc(in))
                    /\ last' = Call("construct", Len(inst) + 1, 0, "ok", "instance", 0)
               ELSE /\ inst' = inst
                    /\ last' = Call("construct", 0, 0,
                                    IF v = "False" THEN "AssertionError" ELSE v, "none", 0)
        /\ UNCHANGED inv

(***************************************************************************)
(* DsaSignature.recover_nonce_reuse, lines 193-200.  The result names the  *)
(* outcome and the values of self.k and self.x when the call ends.         *)
(***************************************************************************)
\* an exception raised before line 196 has assigned anything: self.k and
\* self.x are as they were
DsaRaise(self, outcome, n) ==
    [outcome |-> outcome, k |-> self.k, x |-> self.x, inverses |-> n]

DsaRecover(self, other) ==
    LET q == self.pubkey.q
    IN  IF self.pubkey.q # other.pubkey.q THEN DsaRaise(self, "AssertionError", 0)
        ELSE IF self.sig.r # other.sig.r THEN DsaRaise(self, "AssertionError", 0)
        ELSE LET i1 == inverse(self.sig.s - other.sig.s, q)
             IN  IF i1.raised THEN DsaRaise(self, "ValueError", 1)
                 ELSE LET k == PyMod((self.h - other.h) * i1.val, q)
                          i2 == inverse(self.sig.r, q)
                      IN  IF i2.raised
                          THEN [outcome |-> "ValueError", k |-> k, x |-> self.x,
                                inverses |-> 2]
                          ELSE [outcome |-> "ok", k |-> k,
                                x |-> PyMod((k * self.sig.s - self.h) * i2.val, q),
                                inverses |-> 2]

(***************************************************************************)
(* EcDsaSignature.recover_nonce_reuse, lines 257-278.                      *)
(***************************************************************************)
\* a mutant of candidates: the same candidates, tried in the reverse order
candidates_reversed(self, other) ==
    << (0 - self.sig.s) + other.sig.s,
       (0 - self.sig.s) - other.sig.s,
       self.sig.s + other.sig.s,
       self.sig.s - other.sig.s >>

\* the candidates in the order they are tried, lines 266-269
candidates(self, other) ==
    << self.sig.s - other.sig.s,
       self.sig.s + other.sig.s,
       (0 - self.sig.s) - other.sig.s,
       (0 - self.sig.s) + other.sig.s >>

\* the loop body for one candidate, lines 270-273: st is "True" or "False"
\* (what the trial key's verifies returned) or the exception raised
EcTrial(self, other, candidate, r_inv) ==
    LET z == self.h - other.h
        ci == inverse_mod(candidate, self.n)
    IN  IF ci.raised THEN [st |-> "InverseModError", k |-> 0, d |-> 0]
        ELSE LET k == PyMod(z * ci.val, self.n)
                 d == PyMod(PyMod(self.sig.s * k - self.h, self.n) * r_inv, self.n)
             IN  IF ~(1 <= d /\ d < self.curve.n)
                 THEN [st |-> "SecexpError", k |-> k, d |-> d]
                 ELSE [st |-> verifies(self.curve, Mul[self.curve][<<d, self.curve.G>>],
                                       self.h, self.sig),
                       k |-> k, d |-> d]

\* an exception raised before lines 274-276 have assigned anything
EcRaise(self, outcome, n) ==
    [outcome |-> outcome, k |-> self.k, x |-> self.x,
     signingkey |-> self.signingkey, inverses |-> n]

\* the loop of lines 266-277 from the i-th candidate on, and line 278
RECURSIVE EcSearch(_, _, _, _)
EcSearch(self, other, r_inv, i) ==
    IF i > 4 THEN EcRaise(self, "AssertionError", 5)
    ELSE LET t == EcTrial(self, other, candidates(self, other)[i], r_inv)
         IN  IF t.st = "True"
             THEN [outcome |-> "ok", k |-> t.k, x |-> t.d, signingkey |-> t.d,
                   inverses |-> 1 + i]
             ELSE IF t.st = "False" THEN EcSearch(self, other, r_inv, i + 1)
             ELSE EcRaise(self, t.st, 1 + i)

\* a mutant of EcRecover: an object that holds a key refuses to recover again
EcRecover_once(self, other) ==
    IF self.x # None
    THEN EcRaise(self, "AssertionError", 0)
    ELSE EcSearch(self, other, inverse_mod(self.sig.r, self.n).val, 1)

EcRecover(self, other) ==
    LET ri == inverse_mod(self.sig.r, self.n)
    IN  IF ri.raised
        THEN EcRaise(self, "InverseModError", 1)
        ELSE EcSearch(self, other, ri.val, 1)

\* self.recover_nonce_reuse(other): recovery is run on the first object of
\* the pair, with either object as its argument
RecoverNonceReuse ==
    \E i \in DOMAIN inst \cap {1}, j \in DOMAIN inst :
        /\ LET res == IF inst[i].variant = "DSA"
                      THEN DsaRecover(inst[i], inst[j])
                      ELSE EcRecover(inst[i], inst[j])
               again == /\ last.op = "recover_nonce_reuse"
                        /\ last.self = i /\ last.other = j
                        /\ last.outcome = "ok"
           IN  /\ inst' = IF inst[i].variant = "DSA"
                          THEN [inst EXCEPT ![i].k = res.k, ![i].x = res.x]
                          ELSE [inst EXCEPT ![i].k = res.k, ![i].x = res.x,
                                            ![i].signingkey = res.signingkey]
               /\ last' = [Call("recover_nonce_reuse", i, j, res.outcome,
                                IF res.outcome = "ok" THEN "self" ELSE "none",
                                res.inverses) EXCEPT !.again = again]
        /\ UNCHANGED inv

(***************************************************************************)
(* privkey and export_key.                                                 *)
(***************************************************************************)
\* the truth value Python gives an attribute that is None or an integer
Truthy(v) == v # None /\ v # 0

\* a mutant of PrivkeyOutcome: the assertions are dropped
PrivkeyOutcome_noassert(self) == "ok"

\* DsaSignature.privkey (lines 180-191), EcDsaSignature.privkey (lines 247-255)
PrivkeyOutcome(self) ==
    IF self.variant = "DSA"
    THEN IF ~Truthy(self.x) THEN "AssertionError" ELSE "ok"
    ELSE IF ~Truthy(self.x) THEN "AssertionError"
         ELSE IF ~Truthy(self.signingkey) THEN "AssertionError" ELSE "ok"

\* DsaSignature.export_key (lines 170-172): self.privkey is evaluated first,
\* then the name Cryptodome, which the module never imports.
\* EcDsaSignature.export_key (lines 220-227).
ExportOutcome(self, format) ==
    IF self.variant = "DSA"
    THEN IF PrivkeyOutcome(self) # "ok" THEN PrivkeyOutcome(self) ELSE "NameError"
    ELSE IF format \in {"PEM", "DER"}
         THEN IF self.signingkey = None THEN "AttributeError" ELSE "ok"
         ELSE "ValueError"

Formats == {"PEM", "DER", "RAW"}

Privkey ==
    \E i \in DOMAIN inst :
        /\ last' = Call("privkey", i, 0, PrivkeyOutcome(inst[i]),
                        IF PrivkeyOutcome(inst[i]) = "ok" THEN "key" ELSE "none", 0)
        /\ UNCHANGED <<inst, inv>>

ExportKey ==
    \E i \in DOMAIN inst, format \in Formats :
        /\ last' = Call("export_key", i, 0, ExportOutcome(inst[i], format),
                        IF ExportOutcome(inst[i], format) = "ok" THEN "key" ELSE "none", 0)
        /\ UNCHANGED <<inst, inv>>

(***************************************************************************)
(* The specification of the signature objects.                             *)
(***************************************************************************)
Init ==
    /\ inst = << >>
    /\ last = NoCall
    /\ inv = InvIdle

Next ==
    \/ ConstructDsa
    \/ ConstructEc
    \/ RecoverNonceReuse
    \/ Privkey
    \/ ExportKey

Spec == Init /\ [][Next]_vars

(***************************************************************************)
(* The specification of inverse(a, n) as a function of its arguments.      *)
(***************************************************************************)
InitInverse ==
    /\ inst = << >>
    /\ last = NoCall
    /\ inv \in { [a |-> a, n |-> n, called |-> FALSE, raised |-> FALSE, val |-> 0] :
                   a \in (0 - MaxA)..MaxA, n \in 2..MaxN }

CallInverse ==
    /\ ~inv.called
    /\ inv' = [inv EXCEPT !.called = TRUE,
                          !.raised = inverse(inv.a, inv.n).raised,
                          !.val = inverse(inv.a, inv.n).val]
    /\ UNCHANGED <<inst, last>>

NextInverse == CallInverse

SpecInverse == InitInverse /\ [][NextInverse]_vars

(***************************************************************************)
(* Properties.                                                             *)
(***************************************************************************)
Recovering == last.op = "recover_nonce_reuse"

IsDsa == Len(inst) > 0 /\ inst[1].variant = "DSA"

IsEc == Len(inst) > 0 /\ inst[1].variant = "ECDSA"

\* the DSA signature of digest h under secret x with nonce k
DsaSign(pub, x, k, h) ==
    LET r == ModExp(pub.g, k, pub.p) % pub.q
    IN  [r |-> r, s |-> (ModInv(k, pub.q) * (h + x * r)) % pub.q]

IsPrime(q) == q > 1 /\ \A m \in 2..(q - 1) : q % m # 0

\* a and b are the signatures of digests distinct modulo q under the key of
\* secret x in a group of prime order q, both made with nonce k
DsaReusePair(a, b, x, k) ==
    /\ a.pubkey = b.pubkey
    /\ IsPrime(a.pubkey.q)
    /\ a.pubkey.y = ModExp(a.pubkey.g, x, a.pubkey.p)
    /\ (a.h - b.h) % a.pubkey.q # 0
    /\ a.sig = DsaSign(a.pubkey, x, k, a.h)
    /\ b.sig = DsaSign(b.pubkey, x, k, b.h)

\* C1: DSA recovery correctness.  When recover_nonce_reuse has been called
\* on the signature of h1 with the signature of h2 as argument, both made
\* under secret x with the same nonce k and h1 # h2 (mod q), the call has
\* returned without error, self.x = x and self.k = k, whichever of s1, s2
\* is the larger.
C1_DsaRecoversSecretAndNonce ==
    (Recovering /\ IsDsa) =>
        \A x \in 1..(inst[1].pubkey.q - 1), k \in 1..(inst[1].pubkey.q - 1) :
            DsaReusePair(inst[last.self], inst[last.other], x, k) =>
                /\ last.outcome = "ok"
                /\ inst[last.self].x = x
                /\ inst[last.self].k = k

\* C2: ECDSA recovery never yields a silently wrong key.  When
\* recover_nonce_reuse has been called on two objects bound to the same
\* public key Q on the same curve, either it succeeded and self.x * G = Q,
\* or it ended in an explicit failure and returned nothing.
C2_EcRecoveredKeyMatchesPubkey ==
    (Recovering /\ IsEc /\ inst[last.self].pubkey = inst[last.other].pubkey) =>
        IF last.outcome = "ok"
        THEN Mul[inst[last.self].curve][<<inst[last.self].x, inst[last.self].curve.G>>]
                 = inst[last.self].pubkey.point
        ELSE last.ret = "none"

\* the group order of an object: q for DSA, n for ECDSA
GroupOrder(o) == IF o.variant = "DSA" THEN o.pubkey.q ELSE o.n

\* C3: pair-compatibility precondition.  A recover_nonce_reuse call on a pair
\* that differs in group order or in r fails with the validation error before
\* any arithmetic: no modular inverse is computed, self.k and self.x are not
\* assigned.
C3_IncompatiblePairRejectedFirst ==
    [][ ( /\ last'.op = "recover_nonce_reuse"
          /\ \/ GroupOrder(inst[last'.self]) # GroupOrder(inst[last'.other])
             \/ inst[last'.self].sig.r # inst[last'.other].sig.r )
        => ( /\ last'.outcome = "AssertionError"
             /\ last'.inverses = 0
             /\ inst' = inst ) ]_vars

\* the signature of object o verifies against the public key bound to it
BoundKeyVerifies(o) ==
    IF o.variant = "DSA"
    THEN DsaVerify(o.pubkey, o.h, o.sig)
    ELSE verifies(o.pubkey.curve, o.pubkey.point, o.h, o.sig) = "True"

\* C4: verification gate.  Every object that exists (so every object that
\* recover_nonce_reuse, export_key or privkey can be invoked on) carries a
\* signature that verifies against its bound public key, and that was
\* verified exactly once; a construction whose verification rejects fails and
\* produces no object, and one that completes produces exactly the object
\* that was verified.
C4_VerificationGate ==
    /\ [](\A i \in DOMAIN inst : BoundKeyVerifies(inst[i]) /\ inst[i].nverify = 1)
    /\ [][ last'.op = "construct" =>
             IF last'.outcome = "ok"
             THEN /\ Len(inst') = Len(inst) + 1
                  /\ last'.self = Len(inst')
                  /\ \A i \in DOMAIN inst : inst'[i] = inst[i]
             ELSE /\ inst' = inst
                  /\ last'.ret = "none" ]_vars

\* C4, witness: a construction has failed at the gate while a verified
\* object exists
C4_Witness ==
    /\ last.op = "construct" /\ last.outcome = "AssertionError"
    /\ Len(inst) = 1

\* C5: inverse(a, n) raises the non-coprime error exactly when
\* gcd(|a|, n) # 1, for every n >= 2 and every integer a, negative ones
\* included.
C5_InverseFailsIffNotCoprime ==
    inv.called => (inv.raised <=> Gcd(Abs(inv.a), inv.n) # 1)

\* C6: modular-inverse round trip.  For n >= 2 and a > 0 coprime to n (a may
\* exceed n), inverse(a, n) returns x with 0 <= x < n and (a * x) mod n = 1.
C6_InverseRoundTrip ==
    (inv.called /\ inv.a > 0 /\ Gcd(inv.a, inv.n) = 1) =>
        /\ ~inv.raised
        /\ 0 <= inv.val /\ inv.val < inv.n
        /\ (inv.a * inv.val) % inv.n = 1

\* C6, witness: the inverse of an a that exceeds n has been computed
C6_Witness ==
    /\ inv.called /\ inv.a > inv.n /\ Gcd(inv.a, inv.n) = 1
    /\ ~inv.raised /\ inv.val > 1

\* C7: invariant I1.  After every call self.k and self.x are both None or
\* both set; they are None when the object is constructed, and only a
\* recover_nonce_reuse call on the object that succeeds changes either: every
\* other call, a failing recover_nonce_reuse included, leaves both as they
\* were.
C7_NonceAndSecretSetTogether ==
    [][ /\ \A i \in DOMAIN inst' : (inst'[i].k = None) <=> (inst'[i].x = None)
        /\ \A i \in DOMAIN inst' \ DOMAIN inst :
                 inst'[i].k = None /\ inst'[i].x = None
        /\ \A i \in DOMAIN inst :
                 (inst'[i].k # inst[i].k \/ inst'[i].x # inst[i].x) =>
                     /\ last'.op = "recover_nonce_reuse"
                     /\ last'.self = i
                     /\ last'.outcome = "ok" ]_vars

\* C8: idempotence.  A recover_nonce_reuse call that repeats, on the same
\* object with the same argument, a call that has just succeeded, succeeds
\* too and leaves self.k and self.x as the first call set them.
C8_RecoveryIdempotent ==
    [][ ( /\ last.op = "recover_nonce_reuse" /\ last.outcome = "ok"
          /\ last'.op = "recover_nonce_reuse"
          /\ last'.self = last.self /\ last'.other = last.other )
        => ( /\ last'.outcome = "ok"
             /\ inst'[last.self].k = inst[last.self].k
             /\ inst'[last.self].x = inst[last.self].x ) ]_vars

\* C8, witness: a successful call has been repeated and has succeeded again
C8_Witness ==
    /\ Recovering /\ last.again /\ last.outcome = "ok"
    /\ IsEc /\ inst[last.self].x # None

\* C9: export requires prior recovery.  export_key, or a read of privkey, on
\* an object whose self.x is None ends in an error, returns no key material
\* and leaves the objects as they were.
C9_ExportNeedsRecoveredKey ==
    [][ ( /\ last'.op \in {"export_key", "privkey"}
          /\ inst[last'.self].x = None )
        => ( /\ last'.outcome # "ok"
             /\ last'.ret = "none"
             /\ inst' = inst ) ]_vars

\* C9, witness: export_key and privkey have been refused on an object without
\* a recovered key
C9_Witness ==
    /\ last.op \in {"export_key", "privkey"}
    /\ inst[last.self].x = None
    /\ last.outcome \in {"AssertionError", "AttributeError"}
    /\ Len(inst) = 2

\* the ECDSA signature of digest h under secret d with nonce k
EcSign(c, d, k, h) ==
    LET r == Mul[c][<<k, c.G>>][1] % c.n
    IN  [r |-> r, s |-> (ModInv(k, c.n) * (h + d * r)) % c.n]

\* the signature with s replaced by n - s
Flip(c, sig) == [r |-> sig.r, s |-> c.n - sig.s]

\* a and b are signatures of different digests under the same key and the
\* same nonce, each s possibly replaced by n - s
EcReusePair(a, b) ==
    /\ a.pubkey = b.pubkey
    /\ (a.h - b.h) % a.n # 0
    /\ \E d \in 1..(a.n - 1), k \in 1..(a.n - 1) :
          /\ a.pubkey.point = Mul[a.curve][<<d, a.curve.G>>]
          /\ a.sig \in { EcSign(a.curve, d, k, a.h), Flip(a.curve, EcSign(a.curve, d, k, a.h)) }
          /\ b.sig \in { EcSign(a.curve, d, k, b.h), Flip(a.curve, EcSign(a.curve, d, k, b.h)) }

\* the four candidates in the order the specification lists them
ListedCandidates(a, b) ==
    << a.sig.s - b.sig.s, a.sig.s + b.sig.s,
       (0 - a.sig.s) - b.sig.s, (0 - a.sig.s) + b.sig.s >>

\* what the i-th listed candidate produces: "True" when its trial key
\* verifies (h1, (r, s1))
ListedTrial(a, b, i) ==
    EcTrial(a, b, ListedCandidates(a, b)[i], inverse_mod(a.sig.r, a.n).val)

\* C10, as claimed: for an honest nonce-reuse pair at most one of the four
\* candidates produces a (k, d) whose trial key verifies (h1, (r, s1)).
C10_AtMostOneCandidateVerifies ==
    (Recovering /\ IsEc /\ EcReusePair(inst[last.self], inst[last.other])) =>
        Cardinality({ i \in 1..4 :
            ListedTrial(inst[last.self], inst[last.other], i).st = "True" }) <= 1

\* C10, as amended: for an honest nonce-reuse pair the matching candidate is
\* not unique: when a candidate matches, its negation (the listed candidate
\* 5 - i, whose nonce is n - k and has the same r) matches too, with another
\* (k, d), unless the exponent it derives is no valid secret.  The (k, d)
\* returned is that of the first matching candidate in the listed order.
C10_FirstMatchInListedOrder ==
    (Recovering /\ IsEc /\ EcReusePair(inst[last.self], inst[last.other])) =>
        LET a == inst[last.self]
            b == inst[last.other]
        IN  /\ \A i \in 1..4 :
                  ListedTrial(a, b, i).st = "True" =>
                      /\ ListedTrial(a, b, 5 - i).st \in {"True", "SecexpError"}
                      /\ ListedTrial(a, b, 5 - i).k # ListedTrial(a, b, i).k
                      /\ ListedTrial(a, b, 5 - i).d # ListedTrial(a, b, i).d
            /\ last.outcome = "ok" =>
                  \E i \in 1..4 :
                      /\ ListedTrial(a, b, i).st = "True"
                      /\ \A j \in 1..(i - 1) : ListedTrial(a, b, j).st # "True"
                      /\ a.k = ListedTrial(a, b, i).k
                      /\ a.x = ListedTrial(a, b, i).d

\* C10, witness: recovery has succeeded on an honest pair of which two
\* candidates match
C10_Witness ==
    /\ Recovering /\ IsEc /\ EcReusePair(inst[last.self], inst[last.other])
    /\ last.outcome = "ok"
    /\ Cardinality({ i \in 1..4 :
           ListedTrial(inst[last.self], inst[last.other], i).st = "True" }) = 2

====
